---- MODULE Spec2Model ----
(***************************************************************************)
(* The uWSGI listener adapter of go-uwsgi (uwsgi.go, the revision with the *)
(* background decode goroutine): Listener.Accept, the decode goroutine it  *)
(* starts, and Conn.Read / Write / Set*Deadline.                           *)
(*                                                                         *)
(* Bytes are integers 0..255 and strings are sequences of bytes, so that   *)
(* the wire frame, the record scan with its 16-bit cursor and the          *)
(* synthesized preamble are modelled byte for byte.                        *)
(***************************************************************************)
EXTENDS Integers, Sequences, FiniteSets, TLC

\* ------------------------------------------------------------------------
\* Bounds of the model (not program constants)
\* ------------------------------------------------------------------------

\* Number of peers that may connect to the listener.
NConn == 2

\* Longest block built from the byte alphabet RawBytes (malformed frames).
MaxRawBlock == 3

Conns == 1..NConn

\* ------------------------------------------------------------------------
\* Byte strings of the program text
\* ------------------------------------------------------------------------

kREQUEST_METHOD == <<82, 69, 81, 85, 69, 83, 84, 95, 77, 69, 84, 72, 79, 68>>
kREQUEST_URI == <<82, 69, 81, 85, 69, 83, 84, 95, 85, 82, 73>>
kSERVER_PROTOCOL == <<83, 69, 82, 86, 69, 82, 95, 80, 82, 79, 84, 79, 67, 79, 76>>
kCONTENT_LENGTH == <<67, 79, 78, 84, 69, 78, 84, 95, 76, 69, 78, 71, 84, 72>>

\* " ", "\r\n", ": " and "Content-Length: " of the format strings
sSP == <<32>>
sCRLF == <<13, 10>>
sColonSP == <<58, 32>>
sContentLength == <<67, 111, 110, 116, 101, 110, 116, 45, 76, 101, 110, 103, 116, 104, 58, 32>>

\* var headerMappings = map[string]string{...}
headerMappings ==
       (<<72, 84, 84, 80, 95, 72, 79, 83, 84>> :> <<72, 111, 115, 116>>)
    @@ (<<67, 79, 78, 84, 69, 78, 84, 95, 84, 89, 80, 69>> :> <<67, 111, 110, 116, 101, 110, 116, 45, 84, 121, 112, 101>>)
    @@ (<<72, 84, 84, 80, 95, 65, 67, 67, 69, 80, 84>> :> <<65, 99, 99, 101, 112, 116>>)
    @@ (<<72, 84, 84, 80, 95, 65, 67, 67, 69, 80, 84, 95, 69, 78, 67, 79, 68, 73, 78, 71>> :> <<65, 99, 99, 101, 112, 116, 45, 69, 110, 99, 111, 100, 105, 110, 103>>)
    @@ (<<72, 84, 84, 80, 95, 65, 67, 67, 69, 80, 84, 95, 76, 65, 78, 71, 85, 65, 71, 69>> :> <<65, 99, 99, 101, 112, 116, 45, 76, 97, 110, 103, 117, 97, 103, 101>>)
    @@ (<<72, 84, 84, 80, 95, 65, 67, 67, 69, 80, 84, 95, 67, 72, 65, 82, 83, 69, 84>> :> <<65, 99, 99, 101, 112, 116, 45, 67, 104, 97, 114, 115, 101, 116>>)
    @@ (<<72, 84, 84, 80, 95, 67, 79, 78, 84, 69, 78, 84, 95, 84, 89, 80, 69>> :> <<67, 111, 110, 116, 101, 110, 116, 45, 84, 121, 112, 101>>)
    @@ (<<72, 84, 84, 80, 95, 67, 79, 79, 75, 73, 69>> :> <<67, 111, 111, 107, 105, 101>>)
    @@ (<<72, 84, 84, 80, 95, 73, 70, 95, 77, 65, 84, 67, 72>> :> <<73, 102, 45, 77, 97, 116, 99, 104>>)
    @@ (<<72, 84, 84, 80, 95, 73, 70, 95, 77, 79, 68, 73, 70, 73, 69, 68, 95, 83, 73, 78, 67, 69>> :> <<73, 102, 45, 77, 111, 100, 105, 102, 105, 101, 100, 45, 83, 105, 110, 99, 101>>)
    @@ (<<72, 84, 84, 80, 95, 73, 70, 95, 78, 79, 78, 69, 95, 77, 65, 84, 67, 72>> :> <<73, 102, 45, 78, 111, 110, 101, 45, 77, 97, 116, 99, 104>>)
    @@ (<<72, 84, 84, 80, 95, 73, 70, 95, 82, 65, 78, 71, 69>> :> <<73, 102, 45, 82, 97, 110, 103, 101>>)
    @@ (<<72, 84, 84, 80, 95, 82, 65, 78, 71, 69>> :> <<82, 97, 110, 103, 101>>)
    @@ (<<72, 84, 84, 80, 95, 82, 69, 70, 69, 82, 69, 82>> :> <<82, 101, 102, 101, 114, 101, 114>>)
    @@ (<<72, 84, 84, 80, 95, 85, 83, 69, 82, 95, 65, 71, 69, 78, 84>> :> <<85, 115, 101, 114, 45, 65, 103, 101, 110, 116>>)
    @@ (<<72, 84, 84, 80, 95, 88, 95, 82, 69, 81, 85, 69, 83, 84, 69, 68, 95, 87, 73, 84, 72>> :> <<82, 101, 113, 117, 101, 115, 116, 101, 100, 45, 87, 105, 116, 104>>)

\* hname, ok := headerMappings[i]; if !ok { hname = i }
HeaderName(k) ==
    IF k \in DOMAIN headerMappings THEN headerMappings[k] ELSE k

\* ------------------------------------------------------------------------
\* Errors (the values an error variable may hold)
\* ------------------------------------------------------------------------

NoErr == "nil"
ErrEOF == "EOF"
ErrUnexpectedEOF == "unexpected EOF"
ErrRange == "Invalid uwsgi request; uwsgi vars index out of range"
ErrNoProto == "Invalid uwsgi request; no protocol specified"
ErrClosed == "use of closed network connection"

\* ------------------------------------------------------------------------
\* 16-bit arithmetic and sequence helpers
\* ------------------------------------------------------------------------

\* binary.LittleEndian.Uint16([]byte{lo, hi})
Uint16(lo, hi) == lo + 256 * hi

\* uint16 addition: wraps at 2^16
Add16(a, b) == (a + b) % 65536

Min(a, b) == IF a < b THEN a ELSE b

\* s[lo:hi] of Go (0-based, hi exclusive), for 0 <= lo <= hi <= len(s)
Slice(s, lo, hi) == SubSeq(s, lo + 1, hi)

IsPrefix(p, s) == Len(p) <= Len(s) /\ SubSeq(s, 1, Len(p)) = p

\* ------------------------------------------------------------------------
\* The record scan of the decode goroutine
\* ------------------------------------------------------------------------

\* EnvAppend with the new value put before the earlier ones.
EnvPrepend(env, k, v) ==
    IF k \in DOMAIN env THEN [env EXCEPT ![k] = <<v>> \o @]
    ELSE env @@ (k :> <<v>>)

\* val, ok := c.env[k]; if !ok { val = make(...) }; val = append(val, v); c.env[k] = val
EnvAppend(env, k, v) ==
    IF k \in DOMAIN env THEN [env EXCEPT ![k] = Append(@, v)]
    ELSE env @@ (k :> <<v>>)

\* Go's run-time checks: s[j] needs j < len(s); s[lo:hi] needs lo <= hi <= cap(s)
IndexOK(n, j) == j < n

\* SliceOK of a build that does not check slice bounds.
SliceUnchecked(n, lo, hi) == TRUE

SliceOK(n, lo, hi) == lo <= hi /\ hi <= n

\* i := uint16(0); var reqMethod, reqURI, reqProtocol string; c.env = make(map)
ScanInit ==
    [i |-> 0, st |-> "loop", env |-> <<>>,
     reqMethod |-> <<>>, reqURI |-> <<>>, reqProtocol |-> <<>>]

\* ScanRecord with reqProtocol taken from every record, whatever its key.
ScanRecordAnyKey(s, n, k, v, i4) ==
    [i |-> i4,
     st |-> IF i4 >= n THEN "ok" ELSE "loop",
     env |-> EnvAppend(s.env, k, v),
     reqMethod |-> IF k = kREQUEST_METHOD THEN v ELSE s.reqMethod,
     reqURI |-> IF k = kREQUEST_URI THEN v ELSE s.reqURI,
     reqProtocol |-> v]

\* ScanRecord that keeps the first value of each variable of the request line.
ScanRecordFirstWins(s, n, k, v, i4) ==
    [i |-> i4,
     st |-> IF i4 >= n THEN "ok" ELSE "loop",
     env |-> EnvAppend(s.env, k, v),
     reqMethod |-> IF k = kREQUEST_METHOD /\ s.reqMethod = <<>> THEN v ELSE s.reqMethod,
     reqURI |-> IF k = kREQUEST_URI /\ s.reqURI = <<>> THEN v ELSE s.reqURI,
     reqProtocol |-> IF k = kSERVER_PROTOCOL /\ s.reqProtocol = <<>> THEN v
                     ELSE s.reqProtocol]

\* if k == "REQUEST_METHOD" {...} else if ... ; c.env[k] = append(...); i >= envsize
ScanRecord(s, n, k, v, i4) ==
    [i |-> i4,
     st |-> IF i4 >= n THEN "ok" ELSE "loop",
     env |-> EnvAppend(s.env, k, v),
     reqMethod |-> IF k = kREQUEST_METHOD THEN v ELSE s.reqMethod,
     reqURI |-> IF k = kREQUEST_URI THEN v ELSE s.reqURI,
     reqProtocol |-> IF k = kSERVER_PROTOCOL THEN v ELSE s.reqProtocol]

\* The value half of one loop iteration, with the cursor i2 just after the key.
ScanValue(envbuf, s, k, i2) ==
    LET n == Len(envbuf) IN
    IF Add16(i2, 1) >= n THEN [s EXCEPT !.st = "range", !.i = i2]
    ELSE IF ~(IndexOK(n, i2) /\ IndexOK(n, Add16(i2, 1))) THEN [s EXCEPT !.st = "panic", !.i = i2]
    ELSE
      LET vl == Uint16(envbuf[i2 + 1], envbuf[Add16(i2, 1) + 1])
          i3 == Add16(i2, 2)
          hi == Add16(i3, vl)
      IN IF hi > n THEN [s EXCEPT !.st = "range", !.i = i3]
         ELSE IF ~SliceOK(n, i3, hi) THEN [s EXCEPT !.st = "panic", !.i = i3]
         ELSE ScanRecord(s, n, k, Slice(envbuf, i3, hi), hi)

\* One iteration of the for loop over envbuf, from the cursor s.i.
\* st: "loop" (next iteration), "ok" (break), "range" (the error return),
\* "panic" (a run-time index or slice check failed).
ScanIter(envbuf, s) ==
    LET n == Len(envbuf)
        i0 == s.i
    IN
    IF Add16(i0, 1) >= n THEN [s EXCEPT !.st = "ok"]
    ELSE IF ~(IndexOK(n, i0) /\ IndexOK(n, Add16(i0, 1))) THEN [s EXCEPT !.st = "panic"]
    ELSE
      LET kl == Uint16(envbuf[i0 + 1], envbuf[Add16(i0, 1) + 1])
          i1 == Add16(i0, 2)
          hi == Add16(i1, kl)
      IN IF hi > n THEN [s EXCEPT !.st = "range", !.i = i1]
         ELSE IF ~SliceOK(n, i1, hi) THEN [s EXCEPT !.st = "panic", !.i = i1]
         ELSE ScanValue(envbuf, s, Slice(envbuf, i1, hi), hi)

RECURSIVE ScanFrom(_, _)
ScanFrom(envbuf, s) ==
    IF s.st = "loop" THEN ScanFrom(envbuf, ScanIter(envbuf, s)) ELSE s

\* The whole loop: the state in which it is left.
Scan(envbuf) == ScanFrom(envbuf, ScanInit)

\* ------------------------------------------------------------------------
\* Preamble synthesis
\* ------------------------------------------------------------------------

IsDigit(b) == b >= 48 /\ b <= 57

RECURSIVE StripZeros(_)
StripZeros(d) ==
    IF d # <<>> /\ Head(d) = 48 THEN StripZeros(Tail(d)) ELSE d

\* "9223372036854775807", the value ParseInt returns on overflow (1<<63 - 1)
MaxInt64Digits == <<57, 50, 50, 51, 51, 55, 50, 48, 51, 54, 56, 53, 52, 55, 55, 53, 56, 48, 55>>

RECURSIVE DigitsLess(_, _)
\* a < b for digit strings of equal length
DigitsLess(a, b) ==
    IF a = <<>> THEN FALSE
    ELSE IF Head(a) # Head(b) THEN Head(a) < Head(b)
    ELSE DigitsLess(Tail(a), Tail(b))

\* cl, _ = strconv.ParseInt(s, 10, 64) followed by fmt's %d of cl when cl > 0:
\* the decimal digits of cl, or <<>> when cl <= 0 (a syntax error gives cl = 0,
\* an overflow gives the largest int64).
ContentLengthDigits(s) ==
    LET signed == s # <<>> /\ Head(s) \in {43, 45}
        neg == s # <<>> /\ Head(s) = 45
        d == IF signed THEN Tail(s) ELSE s
        ok == d # <<>> /\ \A j \in 1..Len(d) : IsDigit(d[j])
        z == StripZeros(d)
        over == Len(z) > 19 \/ (Len(z) = 19 /\ DigitsLess(MaxInt64Digits, z))
    IN IF ~ok \/ neg \/ z = <<>> THEN <<>>
       ELSE IF over THEN MaxInt64Digits
       ELSE z

RECURSIVE HeaderLines(_, _)
\* for v := range c.env[i] { fmt.Fprintf(buf, "%s: %s\r\n", hname, c.env[i][v]) }
HeaderLines(hname, vals) ==
    IF vals = <<>> THEN <<>>
    ELSE hname \o sColonSP \o Head(vals) \o sCRLF \o HeaderLines(hname, Tail(vals))

\* EmitKey that writes no line for a key headerMappings does not hold.
EmitKeyMappedOnly(env, k) ==
    IF k = kCONTENT_LENGTH
    THEN LET cl == ContentLengthDigits(env[k][1])
         IN IF cl # <<>> THEN sContentLength \o cl \o sCRLF ELSE <<>>
    ELSE IF k \in DOMAIN headerMappings THEN HeaderLines(headerMappings[k], env[k])
    ELSE <<>>

\* The body of the switch for one key of c.env.
EmitKey(env, k) ==
    IF k = kCONTENT_LENGTH
    THEN LET cl == ContentLengthDigits(env[k][1])
         IN IF cl # <<>> THEN sContentLength \o cl \o sCRLF ELSE <<>>
    ELSE HeaderLines(HeaderName(k), env[k])

RECURSIVE EmitAll(_, _)
\* for i := range c.env {...}, the keys visited in the order `order`.
EmitAll(env, order) ==
    IF order = <<>> THEN <<>>
    ELSE EmitKey(env, Head(order)) \o EmitAll(env, Tail(order))

\* fmt.Fprintf(buf, "%s %s %s\r\n", reqMethod, reqURI, reqProtocol)
RequestLine(s) ==
    s.reqMethod \o sSP \o s.reqURI \o sSP \o s.reqProtocol \o sCRLF

\* Everything the goroutine writes to buf after a successful scan.
Preamble(s, order) ==
    RequestLine(s) \o EmitAll(s.env, order) \o sCRLF

\* The orders in which range may visit the keys of a map: all of them.
MapOrders(S) ==
    {p \in [1..Cardinality(S) -> S] : \A a, b \in 1..Cardinality(S) : a # b => p[a] # p[b]}

\* ------------------------------------------------------------------------
\* What the peers send: the byte streams of the model
\* ------------------------------------------------------------------------

vGET == <<71, 69, 84>>
vSlash == <<47>>
vHTTP11 == <<72, 84, 84, 80, 47, 49, 46, 49>>
vHTTP10 == <<72, 84, 84, 80, 47, 49, 46, 48>>
vX == <<88>>
vHi == <<104, 105>>
vTwo == <<50>>
vPOST == <<80, 79, 83, 84>>
vFoo == <<47, 102, 111, 111>>
vEight == <<56>>
vFooBar1 == <<102, 111, 111, 61, 98, 97, 114, 49>>
kHTTP_COOKIE == <<72, 84, 84, 80, 95, 67, 79, 79, 75, 73, 69>>
vA1 == <<97, 61, 49>>
vB2 == <<98, 61, 50>>

U16Bytes(n) == <<n % 256, n \div 256>>

\* One record as writeKV of the test writes it.
Rec(k, v) == U16Bytes(Len(k)) \o k \o U16Bytes(Len(v)) \o v

\* A frame with a truthful header, followed by the bytes sent after the block.
Frame(block, tail) == <<0>> \o U16Bytes(Len(block)) \o <<0>> \o block \o tail

\* The bytes malformed blocks are made of.
RawBytes == {0, 1, 255}

RawBlocks == UNION {[1..n -> RawBytes] : n \in 0..MaxRawBlock}

\* A well-formed request and the body sent after it.
FrameValid ==
    Frame(Rec(kSERVER_PROTOCOL, vHTTP11) \o Rec(kREQUEST_METHOD, vGET)
          \o Rec(kREQUEST_URI, vSlash), vHi)

\* The smallest well-formed request, declaring HTTP/1.0.
FrameMin == Frame(Rec(kSERVER_PROTOCOL, vHTTP10), vX)

\* A request with CONTENT_LENGTH and its body.
FrameBody ==
    Frame(Rec(kSERVER_PROTOCOL, vHTTP11) \o Rec(kCONTENT_LENGTH, vTwo), vHi)

\* No SERVER_PROTOCOL, and an empty one.
FrameNoProto == Frame(Rec(kREQUEST_URI, vSlash), vHi)
FrameEmptyProto == Frame(Rec(kSERVER_PROTOCOL, <<>>), <<>>)

\* A key length that runs past the block.
FrameKeyOver == Frame(U16Bytes(9) \o vHi, <<>>)

\* A value length that runs past the block.
FrameValOver == Frame(U16Bytes(1) \o vX \o U16Bytes(300) \o vHi, <<>>)

\* One stray byte after the last record.
FrameTrailing == Frame(Rec(kSERVER_PROTOCOL, vHTTP11) \o <<7>>, vHi)

\* The header declares 10 bytes, the peer sends 3 and closes.
FrameShort == <<0, 10, 0, 0, 0, 0, 0>>

\* A well-formed request whose last value is empty and one of whose values
\* is the text SERVER_PROTOCOL.
FrameShift ==
    Frame(Rec(kSERVER_PROTOCOL, vHTTP11) \o Rec(kREQUEST_URI, kSERVER_PROTOCOL)
          \o Rec(vX, <<>>), vHi)

\* The request of TestBasic reduced to the four variables of the request line
\* and the body length, followed by its body.
FramePost ==
    Frame(Rec(kREQUEST_METHOD, vPOST) \o Rec(kREQUEST_URI, vFoo)
          \o Rec(kSERVER_PROTOCOL, vHTTP11) \o Rec(kCONTENT_LENGTH, vEight), vFooBar1)

\* A request in which HTTP_COOKIE occurs twice.
FrameCookie ==
    Frame(Rec(kHTTP_COOKIE, vA1) \o Rec(kSERVER_PROTOCOL, vHTTP11)
          \o Rec(kHTTP_COOKIE, vB2), <<>>)

\* A request with a key of headerMappings that occurs twice and a key that is
\* not in headerMappings.
FrameHeaders ==
    Frame(Rec(kSERVER_PROTOCOL, vHTTP11) \o Rec(kHTTP_COOKIE, vA1) \o Rec(vX, vHi)
          \o Rec(kHTTP_COOKIE, vB2), <<>>)

\* A request in which each variable of the request line occurs twice.
FrameRepeat ==
    Frame(Rec(kREQUEST_METHOD, vGET) \o Rec(kREQUEST_URI, vSlash)
          \o Rec(kSERVER_PROTOCOL, vHTTP10) \o Rec(kREQUEST_METHOD, vPOST)
          \o Rec(kREQUEST_URI, vFoo) \o Rec(kSERVER_PROTOCOL, vHTTP11), <<>>)

\* SERVER_PROTOCOL occurs twice and its last value is empty.
FrameLastEmpty ==
    Frame(Rec(kSERVER_PROTOCOL, vHTTP11) \o Rec(kSERVER_PROTOCOL, <<>>), <<>>)

\* An empty key and a value length of 65535: the 16-bit sum of the cursor and
\* the value length wraps around.
FrameValWrap == Frame(U16Bytes(0) \o U16Bytes(65535), <<>>)

\* Every stream a peer of the single-connection specification may send.
Streams ==
    {FrameValid, FrameMin, FrameBody, FrameNoProto, FrameEmptyProto, FrameKeyOver,
     FrameValOver, FrameTrailing, FrameShort, FrameShift, FramePost, FrameCookie,
     FrameHeaders, FrameRepeat, FrameLastEmpty, FrameValWrap, <<>>, <<0>>}
    \cup {Frame(b, <<>>) : b \in RawBlocks}

\* The streams of the several-connections specification.
ConcStreams == {FrameMin, FrameShort, Frame(<<255, 255>>, <<>>)}

\* A peer that never connects.
NoStream == <<256>>

\* The sizes of the buffers the consumer passes to Read.
ReadSizes == {0, 9, 200}

\* Where a peer may cut its stream into separate writes: inside the 4-byte
\* header, at the end of the block, at the end of the stream.
CutPoints(s) ==
    {p \in {1, 2, 3, 4, Len(s)} \cup
           (IF Len(s) >= 4 THEN {4 + Uint16(s[2], s[3])} ELSE {}) : p <= Len(s)}

\* The header, then the rest.
ConcCutPoints(s) == {p \in {4, Len(s)} : p <= Len(s)}

\* ------------------------------------------------------------------------
\* State
\* ------------------------------------------------------------------------

VARIABLES
    stream,      \* peer c -> the bytes it will send (NoStream: it never connects)
    cuts,        \* peer c -> the offsets at which its stream may arrive in pieces
    connected,   \* peer c has connected to the underlying listener
    sent,        \* how many bytes of stream[c] the peer has written
    peerClosed,  \* the peer has closed its end
    backlog,     \* connections waiting in l.Listener.Accept, oldest first
    taken,       \* how many bytes of stream[c] have been read from fd
    fdClosed,    \* fd.Close() was called
    accepted,    \* Accept has returned the Conn
    ready,       \* Conn.ready
    hdrdone,     \* Conn.hdrdone
    err,         \* Conn.err
    readych,     \* Conn.readych: the number of values in the channel (capacity 1)
    buf,         \* Conn.reader: the unread bytes of the bytes.Buffer
    decPc,       \* the goroutine: none, head, block, scan, closing, done, failed, panic
    head,        \* its var head [4]byte
    envbuf,      \* its envbuf, once io.ReadFull has filled it
    derr,        \* the error it is about to store in c.err, after fd.Close()
    rdPc,        \* the consumer's Read call: idle, wait, body, raw
    rdLen,       \* len(b) of the Read call in progress
    delivered,   \* history: the bytes Read has returned so far
    preamble,    \* history: what the goroutine wrote to buf
    sends,       \* history: the number of sends on readych
    rawFirst,    \* history: stream offset of the first byte returned by c.Conn.Read, or -1
    restFrom,    \* history: the value of taken when the goroutine signalled
    ret,         \* history: what the call that returned in the last step returned
    crashed      \* the process died of an unrecovered panic

\* Passenger.ServeHTTP (one call)
VARIABLES
    preq,        \* req: the request being forwarded
    ppc,         \* its position: off, dial, build, size, write, copy, read, respond, done, panic
    pconn,       \* conn: none, open, closed
    pcloses,     \* history: the number of calls of conn.Close()
    pheader,     \* header: the map of variables
    psize,       \* size
    pwire,       \* the writes to conn so far, one element for each Write call
    pres,        \* res: the response read from the backend
    wheader,     \* w.Header()
    wbody        \* what has been written to w

passVars == <<preq, ppc, pconn, pcloses, pheader, psize, pwire, pres, wheader, wbody>>

vars ==
    <<stream, cuts, connected, sent, peerClosed, backlog, taken, fdClosed, accepted,
      ready, hdrdone, err, readych, buf, decPc, head, envbuf, derr, rdPc, rdLen,
      delivered, preamble, sends, rawFirst, restFrom, ret, crashed,
      preq, ppc, pconn, pcloses, pheader, psize, pwire, pres, wheader, wbody>>

listenerVars ==
    <<stream, cuts, connected, sent, peerClosed, backlog, taken, fdClosed, accepted,
      ready, hdrdone, err, readych, buf, decPc, head, envbuf, derr, rdPc, rdLen,
      delivered, preamble, sends, rawFirst, restFrom, ret, crashed>>

peerVars == <<stream, cuts, connected, sent, peerClosed>>
connVars == <<ready, hdrdone, err, readych, buf>>
decVars == <<decPc, head, envbuf, derr>>
histVars == <<delivered, preamble, sends, rawFirst, restFrom>>

NoOp == [conn |-> 0, op |-> "none", n |-> 0, err |-> NoErr, called |-> FALSE]

\* The bytes that have arrived on fd and have not been read.
Avail(c) == sent[c] - taken[c]

\* The next k bytes fd will deliver.
Incoming(c, k) == SubSeq(stream[c], taken[c] + 1, taken[c] + k)

\* Init, but for the streams of the peers.
InitRest ==
    /\ connected = [c \in Conns |-> FALSE]
    /\ sent = [c \in Conns |-> 0]
    /\ peerClosed = [c \in Conns |-> FALSE]
    /\ backlog = <<>>
    /\ taken = [c \in Conns |-> 0]
    /\ fdClosed = [c \in Conns |-> FALSE]
    /\ accepted = [c \in Conns |-> FALSE]
    /\ ready = [c \in Conns |-> FALSE]
    /\ hdrdone = [c \in Conns |-> FALSE]
    /\ err = [c \in Conns |-> NoErr]
    /\ readych = [c \in Conns |-> 0]
    /\ buf = [c \in Conns |-> <<>>]
    /\ decPc = [c \in Conns |-> "none"]
    /\ head = [c \in Conns |-> <<0, 0, 0, 0>>]
    /\ envbuf = [c \in Conns |-> <<>>]
    /\ derr = [c \in Conns |-> NoErr]
    /\ rdPc = [c \in Conns |-> "idle"]
    /\ rdLen = [c \in Conns |-> 0]
    /\ delivered = [c \in Conns |-> <<>>]
    /\ preamble = [c \in Conns |-> <<>>]
    /\ sends = [c \in Conns |-> 0]
    /\ rawFirst = [c \in Conns |-> -1]
    /\ restFrom = [c \in Conns |-> 0]
    /\ ret = NoOp
    /\ crashed = FALSE

\* No request is given to a Passenger.
PassOff ==
    /\ preq = <<>>
    /\ ppc = "off"
    /\ pconn = "none"
    /\ pcloses = 0
    /\ pheader = <<>>
    /\ psize = 0
    /\ pwire = <<>>
    /\ pres = <<>>
    /\ wheader = <<>>
    /\ wbody = <<>>

\* One peer, any stream.
Init ==
    /\ stream \in {f \in [Conns -> Streams \cup {NoStream}] :
                     \A c \in Conns : (f[c] = NoStream) <=> (c # 1)}
    /\ cuts = [c \in Conns |-> IF stream[c] = NoStream THEN {} ELSE CutPoints(stream[c])]
    /\ InitRest
    /\ PassOff

\* Every peer connects; the streams are the few of ConcStreams, each arriving
\* as its 4-byte header and then the rest.
InitConc ==
    /\ stream \in [Conns -> ConcStreams]
    /\ cuts = [c \in Conns |-> ConcCutPoints(stream[c])]
    /\ InitRest
    /\ PassOff

\* ------------------------------------------------------------------------
\* The peers and the underlying transport
\* ------------------------------------------------------------------------

PeerConnect(c) ==
    /\ stream[c] # NoStream
    /\ ~connected[c]
    /\ connected' = [connected EXCEPT ![c] = TRUE]
    /\ backlog' = Append(backlog, c)
    /\ ret' = NoOp
    /\ UNCHANGED <<stream, cuts, sent, peerClosed, taken, fdClosed, accepted, connVars,
                   decVars, rdPc, rdLen, histVars, crashed>>
    /\ UNCHANGED passVars

PeerSend(c) ==
    /\ connected[c]
    /\ ~peerClosed[c]
    /\ \E p \in cuts[c] :
         /\ p > sent[c]
         /\ sent' = [sent EXCEPT ![c] = p]
    /\ ret' = NoOp
    /\ UNCHANGED <<stream, cuts, connected, peerClosed, backlog, taken, fdClosed, accepted,
                   connVars, decVars, rdPc, rdLen, histVars, crashed>>
    /\ UNCHANGED passVars

PeerClose(c) ==
    /\ connected[c]
    /\ ~peerClosed[c]
    /\ sent[c] = Len(stream[c])
    /\ peerClosed' = [peerClosed EXCEPT ![c] = TRUE]
    /\ ret' = NoOp
    /\ UNCHANGED <<stream, cuts, connected, sent, backlog, taken, fdClosed, accepted,
                   connVars, decVars, rdPc, rdLen, histVars, crashed>>
    /\ UNCHANGED passVars

\* fd.Read(p) of the net.Conn can return: data has arrived, or the stream ended,
\* or fd is closed, or p is empty.
FdReadable(c, n) ==
    fdClosed[c] \/ n = 0 \/ Avail(c) > 0 \/ peerClosed[c]

\* What it returns: the bytes and the error.
FdRead(c, n) ==
    IF fdClosed[c] THEN [bytes |-> <<>>, e |-> ErrClosed]
    ELSE IF n = 0 THEN [bytes |-> <<>>, e |-> NoErr]
    ELSE IF Avail(c) > 0 THEN [bytes |-> Incoming(c, Min(n, Avail(c))), e |-> NoErr]
    ELSE [bytes |-> <<>>, e |-> ErrEOF]

\* The error of c.Conn.Write / SetDeadline / ... of the net.Conn.
FdCall(c) == IF fdClosed[c] THEN ErrClosed ELSE NoErr

\* ------------------------------------------------------------------------
\* Listener.Accept and the decode goroutine
\* ------------------------------------------------------------------------

\* fd, err := l.Listener.Accept(); c := &Conn{...}; go func() {...}(); return c, nil
Accept ==
    /\ ~crashed
    /\ backlog # <<>>
    /\ LET c == Head(backlog) IN
         /\ backlog' = Tail(backlog)
         /\ accepted' = [accepted EXCEPT ![c] = TRUE]
         /\ ready' = [ready EXCEPT ![c] = FALSE]
         /\ hdrdone' = [hdrdone EXCEPT ![c] = FALSE]
         /\ err' = [err EXCEPT ![c] = NoErr]
         /\ readych' = [readych EXCEPT ![c] = 0]
         /\ buf' = [buf EXCEPT ![c] = <<>>]
         /\ decPc' = [decPc EXCEPT ![c] = "head"]
    /\ ret' = NoOp
    /\ UNCHANGED <<peerVars, taken, fdClosed, head, envbuf, derr, rdPc, rdLen, histVars,
                   crashed>>
    /\ UNCHANGED passVars

\* var head [4]byte; fd.Read(head[:])  -- one Read, its result ignored
DecHead(c) ==
    /\ ~crashed
    /\ decPc[c] = "head"
    /\ FdReadable(c, 4)
    /\ LET r == FdRead(c, 4) IN
         /\ head' = [head EXCEPT ![c] =
                       [j \in 1..4 |-> IF j <= Len(r.bytes) THEN r.bytes[j] ELSE 0]]
         /\ taken' = [taken EXCEPT ![c] = @ + Len(r.bytes)]
    /\ decPc' = [decPc EXCEPT ![c] = "block"]
    /\ ret' = NoOp
    /\ UNCHANGED <<peerVars, backlog, fdClosed, accepted, connVars, envbuf, derr, rdPc,
                   rdLen, histVars, crashed>>
    /\ UNCHANGED passVars

\* envsize := binary.LittleEndian.Uint16([]byte{head[1], head[2]})
Envsize(c) == Uint16(head[c][2], head[c][3])

\* DecFail without fd.Close().
DecFailNoClose(c, e) ==
    /\ fdClosed' = fdClosed
    /\ derr' = [derr EXCEPT ![c] = e]
    /\ decPc' = [decPc EXCEPT ![c] = "closing"]
    /\ UNCHANGED err

\* fd.Close() of an error path; the store c.err = e is the step DecStore.
DecFail(c, e) ==
    /\ fdClosed' = [fdClosed EXCEPT ![c] = TRUE]
    /\ derr' = [derr EXCEPT ![c] = e]
    /\ decPc' = [decPc EXCEPT ![c] = "closing"]
    /\ UNCHANGED err

\* c.err = e; return.  The goroutine writes c.err and the methods of Conn read
\* it with no synchronisation between them: the store is a step of its own, so
\* that a method may run between fd.Close() and the moment c.err holds the error.
DecStore(c) ==
    /\ ~crashed
    /\ decPc[c] = "closing"
    /\ err' = [err EXCEPT ![c] = derr[c]]
    /\ decPc' = [decPc EXCEPT ![c] = "failed"]
    /\ ret' = NoOp
    /\ UNCHANGED <<peerVars, backlog, taken, fdClosed, accepted, ready, hdrdone, readych,
                   buf, head, envbuf, derr, rdPc, rdLen, histVars, crashed>>
    /\ UNCHANGED passVars

\* envbuf := make([]byte, envsize); io.ReadFull(fd, envbuf), and its error path
DecBlock(c) ==
    /\ ~crashed
    /\ decPc[c] = "block"
    /\ \/ /\ Avail(c) >= Envsize(c)
          /\ envbuf' = [envbuf EXCEPT ![c] = Incoming(c, Envsize(c))]
          /\ taken' = [taken EXCEPT ![c] = @ + Envsize(c)]
          /\ decPc' = [decPc EXCEPT ![c] = "scan"]
          /\ UNCHANGED <<fdClosed, err, derr>>
       \/ /\ Avail(c) < Envsize(c)
          /\ peerClosed[c]
          /\ taken' = [taken EXCEPT ![c] = @ + Avail(c)]
          /\ DecFail(c, IF Avail(c) = 0 THEN ErrEOF ELSE ErrUnexpectedEOF)
          /\ UNCHANGED envbuf
    /\ ret' = NoOp
    /\ UNCHANGED <<peerVars, backlog, accepted, ready, hdrdone, readych, buf, head,
                   rdPc, rdLen, histVars, crashed>>
    /\ UNCHANGED passVars

\* buf gets the request line, the headers and the blank line; c.readych <- true
DecSucceed(c, s) ==
    /\ readych[c] = 0
    /\ \E order \in MapOrders(DOMAIN s.env) :
         /\ buf' = [buf EXCEPT ![c] = Preamble(s, order)]
         /\ preamble' = [preamble EXCEPT ![c] = Preamble(s, order)]
    /\ readych' = [readych EXCEPT ![c] = 1]
    /\ sends' = [sends EXCEPT ![c] = @ + 1]
    /\ restFrom' = [restFrom EXCEPT ![c] = taken[c]]
    /\ decPc' = [decPc EXCEPT ![c] = "done"]
    /\ UNCHANGED <<fdClosed, err, derr, crashed>>

\* The record scan, the protocol check and the synthesis of the preamble.
DecScan(c) ==
    /\ ~crashed
    /\ decPc[c] = "scan"
    /\ LET s == Scan(envbuf[c]) IN
         \/ /\ s.st = "panic"
            /\ crashed' = TRUE
            /\ decPc' = [decPc EXCEPT ![c] = "panic"]
            /\ UNCHANGED <<fdClosed, err, derr, readych, buf, preamble, sends, restFrom>>
         \/ /\ s.st = "range"
            /\ DecFail(c, ErrRange)
            /\ UNCHANGED <<readych, buf, preamble, sends, restFrom, crashed>>
         \/ /\ s.st = "ok"
            /\ s.reqProtocol = <<>>
            /\ DecFail(c, ErrNoProto)
            /\ UNCHANGED <<readych, buf, preamble, sends, restFrom, crashed>>
         \/ /\ s.st = "ok"
            /\ s.reqProtocol # <<>>
            /\ DecSucceed(c, s)
    /\ ret' = NoOp
    /\ UNCHANGED <<peerVars, backlog, taken, accepted, ready, hdrdone, head, envbuf,
                   rdPc, rdLen, delivered, rawFirst>>
    /\ UNCHANGED passVars

\* ------------------------------------------------------------------------
\* Conn.Read
\* ------------------------------------------------------------------------

\* What ret holds when a call returns.
Returned(c, op, n, e, called) ==
    [conn |-> c, op |-> op, n |-> n, err |-> e, called |-> called]

\* ReadCall without the wait for the goroutine's signal.
ReadCallNoWait(c) ==
    /\ ~crashed
    /\ accepted[c]
    /\ rdPc[c] = "idle"
    /\ \E n \in ReadSizes : rdLen' = [rdLen EXCEPT ![c] = n]
    /\ rdPc' = [rdPc EXCEPT ![c] = "body"]
    /\ ret' = NoOp
    /\ UNCHANGED <<peerVars, backlog, taken, fdClosed, accepted, connVars, decVars,
                   histVars, crashed>>
    /\ UNCHANGED passVars

\* The consumer calls Read(b): the test !c.ready && c.err == nil
ReadCall(c) ==
    /\ ~crashed
    /\ accepted[c]
    /\ rdPc[c] = "idle"
    /\ \E n \in ReadSizes : rdLen' = [rdLen EXCEPT ![c] = n]
    /\ rdPc' = [rdPc EXCEPT ![c] = IF ~ready[c] /\ err[c] = NoErr THEN "wait" ELSE "body"]
    /\ ret' = NoOp
    /\ UNCHANGED <<peerVars, backlog, taken, fdClosed, accepted, connVars, decVars,
                   histVars, crashed>>
    /\ UNCHANGED passVars

\* ReadWake without c.ready = true.
ReadWakeNoReady(c) ==
    /\ ~crashed
    /\ rdPc[c] = "wait"
    /\ readych[c] > 0
    /\ readych' = [readych EXCEPT ![c] = @ - 1]
    /\ rdPc' = [rdPc EXCEPT ![c] = "body"]
    /\ ret' = NoOp
    /\ UNCHANGED <<peerVars, backlog, taken, fdClosed, accepted, ready, hdrdone, err, buf,
                   decVars, rdLen, histVars, crashed>>
    /\ UNCHANGED passVars

\* <-c.readych; c.ready = true
ReadWake(c) ==
    /\ ~crashed
    /\ rdPc[c] = "wait"
    /\ readych[c] > 0
    /\ readych' = [readych EXCEPT ![c] = @ - 1]
    /\ ready' = [ready EXCEPT ![c] = TRUE]
    /\ rdPc' = [rdPc EXCEPT ![c] = "body"]
    /\ ret' = NoOp
    /\ UNCHANGED <<peerVars, backlog, taken, fdClosed, accepted, hdrdone, err, buf,
                   decVars, rdLen, histVars, crashed>>
    /\ UNCHANGED passVars

\* bytes.Buffer.Read(p): (0, nil) for an empty p unless... the buffer is empty
\* and p is not, which is (0, io.EOF); otherwise the first min(len) bytes.
BufRead(b, n) ==
    IF b = <<>> THEN [n |-> 0, e |-> IF n = 0 THEN NoErr ELSE ErrEOF]
    ELSE [n |-> Min(n, Len(b)), e |-> NoErr]

\* if c.err != nil { return 0, c.err }
\* if !c.hdrdone { n, e = c.reader.Read(b); if n == 0 || e != nil { c.hdrdone = true } }
ReadBody(c) ==
    /\ ~crashed
    /\ rdPc[c] = "body"
    /\ IF err[c] # NoErr
       THEN /\ ret' = Returned(c, "Read", 0, err[c], FALSE)
            /\ rdPc' = [rdPc EXCEPT ![c] = "idle"]
            /\ rdLen' = [rdLen EXCEPT ![c] = 0]
            /\ UNCHANGED <<hdrdone, buf, delivered>>
       ELSE IF hdrdone[c]
       THEN /\ rdPc' = [rdPc EXCEPT ![c] = "raw"]
            /\ ret' = NoOp
            /\ UNCHANGED <<hdrdone, buf, delivered, rdLen>>
       ELSE LET r == BufRead(buf[c], rdLen[c]) IN
            /\ buf' = [buf EXCEPT ![c] = SubSeq(@, r.n + 1, Len(@))]
            /\ IF r.n = 0 \/ r.e # NoErr
               THEN /\ hdrdone' = [hdrdone EXCEPT ![c] = TRUE]
                    /\ rdPc' = [rdPc EXCEPT ![c] = "raw"]
                    /\ ret' = NoOp
                    /\ UNCHANGED <<delivered, rdLen>>
               ELSE /\ delivered' = [delivered EXCEPT ![c] = @ \o SubSeq(buf[c], 1, r.n)]
                    /\ ret' = Returned(c, "Read", r.n, r.e, FALSE)
                    /\ rdPc' = [rdPc EXCEPT ![c] = "idle"]
                    /\ rdLen' = [rdLen EXCEPT ![c] = 0]
                    /\ UNCHANGED hdrdone
    /\ UNCHANGED <<peerVars, backlog, taken, fdClosed, accepted, ready, err, readych,
                   decVars, preamble, sends, rawFirst, restFrom, crashed>>
    /\ UNCHANGED passVars

\* if c.hdrdone { n, e = c.Conn.Read(b); c.err = e }; return n, e
ReadRaw(c) ==
    /\ ~crashed
    /\ rdPc[c] = "raw"
    /\ FdReadable(c, rdLen[c])
    /\ LET r == FdRead(c, rdLen[c]) IN
         /\ err' = [err EXCEPT ![c] = r.e]
         /\ taken' = [taken EXCEPT ![c] = @ + Len(r.bytes)]
         /\ delivered' = [delivered EXCEPT ![c] = @ \o r.bytes]
         /\ rawFirst' = [rawFirst EXCEPT ![c] =
                           IF @ = -1 /\ r.bytes # <<>> THEN taken[c] ELSE @]
         /\ ret' = Returned(c, "Read", Len(r.bytes), r.e, TRUE)
    /\ rdPc' = [rdPc EXCEPT ![c] = "idle"]
    /\ rdLen' = [rdLen EXCEPT ![c] = 0]
    /\ UNCHANGED <<peerVars, backlog, fdClosed, accepted, ready, hdrdone, readych, buf,
                   decVars, preamble, sends, restFrom, crashed>>
    /\ UNCHANGED passVars

\* ------------------------------------------------------------------------
\* Conn.Write and the deadline setters
\* ------------------------------------------------------------------------

\* PassThrough without the test of c.err.
PassThroughNoCheck(c, op) ==
    /\ ~crashed
    /\ accepted[c]
    /\ ret' = Returned(c, op, 0, FdCall(c), TRUE)
    /\ UNCHANGED <<peerVars, backlog, taken, fdClosed, accepted, connVars, decVars,
                   rdPc, rdLen, histVars, crashed>>
    /\ UNCHANGED passVars

\* if c.err != nil { return c.err }; return c.Conn.<op>(...)
PassThrough(c, op) ==
    /\ ~crashed
    /\ accepted[c]
    /\ ret' = IF err[c] # NoErr
                 THEN Returned(c, op, 0, err[c], FALSE)
                 ELSE Returned(c, op, 0, FdCall(c), TRUE)
    /\ UNCHANGED <<peerVars, backlog, taken, fdClosed, accepted, connVars, decVars,
                   rdPc, rdLen, histVars, crashed>>
    /\ UNCHANGED passVars

Write(c) == PassThrough(c, "Write")

SetDeadline(c) == PassThrough(c, "SetDeadline")

SetReadDeadline(c) == PassThrough(c, "SetReadDeadline")

SetWriteDeadline(c) == PassThrough(c, "SetWriteDeadline")

\* ------------------------------------------------------------------------
\* Specifications
\* ------------------------------------------------------------------------

Next ==
    \/ \E c \in Conns : PeerConnect(c)
    \/ \E c \in Conns : PeerSend(c)
    \/ \E c \in Conns : PeerClose(c)
    \/ Accept
    \/ \E c \in Conns : DecHead(c)
    \/ \E c \in Conns : DecBlock(c)
    \/ \E c \in Conns : DecScan(c)
    \/ \E c \in Conns : DecStore(c)
    \/ \E c \in Conns : ReadCall(c)
    \/ \E c \in Conns : ReadWake(c)
    \/ \E c \in Conns : ReadBody(c)
    \/ \E c \in Conns : ReadRaw(c)
    \/ \E c \in Conns : Write(c)
    \/ \E c \in Conns : SetDeadline(c)
    \/ \E c \in Conns : SetReadDeadline(c)
    \/ \E c \in Conns : SetWriteDeadline(c)

\* One connection, every stream of Streams.
Spec == Init /\ [][Next]_vars

\* The steps that change a connection or its transport.  Write and the deadline
\* setters are left to Spec: they read c.err and change nothing of the program's
\* state.
NextConc ==
    \/ \E c \in Conns : PeerConnect(c)
    \/ \E c \in Conns : PeerSend(c)
    \/ \E c \in Conns : PeerClose(c)
    \/ Accept
    \/ \E c \in Conns : DecHead(c)
    \/ \E c \in Conns : DecBlock(c)
    \/ \E c \in Conns : DecScan(c)
    \/ \E c \in Conns : DecStore(c)
    \/ \E c \in Conns : ReadCall(c)
    \/ \E c \in Conns : ReadWake(c)
    \/ \E c \in Conns : ReadBody(c)
    \/ \E c \in Conns : ReadRaw(c)

\* Several connections at once, the streams of ConcStreams.
SpecConc == InitConc /\ [][NextConc]_vars

\* ------------------------------------------------------------------------
\* The decode goroutine applied to a whole stream
\* ------------------------------------------------------------------------

\* envbuf after fd.Read(head[:]) and io.ReadFull(fd, envbuf), when the stream s
\* (at least 4 bytes) is there in one piece: the envsize bytes after the header.
WireBlock(s) == SubSeq(s, 5, Min(Len(s), 4 + Uint16(s[2], s[3])))

\* What is left on fd after them.
WireRest(s) == SubSeq(s, 5 + Uint16(s[2], s[3]), Len(s))

RECURSIVE Flat(_)
\* The byte stream made by a sequence of writes.
Flat(w) == IF w = <<>> THEN <<>> ELSE Head(w) \o Flat(Tail(w))

\* ------------------------------------------------------------------------
\* Passenger: the frame ServeHTTP writes to the backend
\* ------------------------------------------------------------------------

\* The variable names of the header map built by ServeHTTP (besides
\* REQUEST_METHOD, REQUEST_URI, CONTENT_LENGTH and SERVER_PROTOCOL above).
kSERVER_NAME == <<83, 69, 82, 86, 69, 82, 95, 78, 65, 77, 69>>
kSERVER_ADDR == <<83, 69, 82, 86, 69, 82, 95, 65, 68, 68, 82>>
kSERVER_PORT == <<83, 69, 82, 86, 69, 82, 95, 80, 79, 82, 84>>
kREMOTE_HOST == <<82, 69, 77, 79, 84, 69, 95, 72, 79, 83, 84>>
kREMOTE_ADDR == <<82, 69, 77, 79, 84, 69, 95, 65, 68, 68, 82>>
kSCRIPT_NAME == <<83, 67, 82, 73, 80, 84, 95, 78, 65, 77, 69>>
kPATH_INFO == <<80, 65, 84, 72, 95, 73, 78, 70, 79>>
kQUERY_STRING == <<81, 85, 69, 82, 89, 95, 83, 84, 82, 73, 78, 71>>
kCONTENT_TYPE == <<67, 79, 78, 84, 69, 78, 84, 95, 84, 89, 80, 69>>

\* "HTTP_", "Content-Type" (the argument of req.Header.Get) and the default port
sHTTP_ == <<72, 84, 84, 80, 95>>
hContentType == <<67, 111, 110, 116, 101, 110, 116, 45, 84, 121, 112, 101>>
s80 == <<56, 48>>

\* var trailingPort = regexp.MustCompile(`:([0-9]+)$`) and
\* trailingPort.FindStringSubmatch(host): the leftmost offset at which a ':'
\* followed by one or more digits and the end of the text starts, or 0.
trailingPort(host) ==
    LET M == {p \in 1..Len(host) :
                 /\ host[p] = 58
                 /\ p < Len(host)
                 /\ \A j \in (p + 1)..Len(host) : IsDigit(host[j])}
    IN IF M = {} THEN 0 ELSE CHOOSE p \in M : \A q \in M : p <= q

\* Port without the match: always the default.
PortDefault(host) == s80

\* port := "80"; if matches := ...; len(matches) != 0 { port = matches[1] }
Port(host) ==
    IF trailingPort(host) = 0 THEN s80
    ELSE SubSeq(host, trailingPort(host) + 1, Len(host))

RECURSIVE NatDigits(_)
\* The decimal digits of n >= 0.
NatDigits(n) ==
    IF n < 10 THEN <<48 + n>> ELSE Append(NatDigits(n \div 10), 48 + (n % 10))

\* strconv.Itoa
Itoa(n) == IF n < 0 THEN <<45>> \o NatDigits(0 - n) ELSE NatDigits(n)

\* strings.ToUpper(strings.Replace(k, "-", "_", -1)) on ASCII text
UpperUnderscore(k) ==
    [j \in 1..Len(k) |->
        IF k[j] = 45 THEN 95
        ELSE IF k[j] >= 97 /\ k[j] <= 122 THEN k[j] - 32
        ELSE k[j]]

\* req.Header.Get(name): the first value of the name, or ""
HeaderGet(h, name) ==
    IF name \in DOMAIN h /\ h[name] # <<>> THEN h[name][1] ELSE <<>>

\* m[k] = v of a Go map
MapSet(m, k, v) == [x \in DOMAIN m \cup {k} |-> IF x = k THEN v ELSE m[x]]

\* header := make(map[string][]string); header["REQUEST_METHOD"] = ... up to
\* the optional CONTENT_TYPE
FixedHeader(req) ==
    LET fixed ==
               (kREQUEST_METHOD :> <<req.Method>>)
            @@ (kREQUEST_URI :> <<req.RequestURI>>)
            @@ (kCONTENT_LENGTH :> <<Itoa(req.ContentLength)>>)
            @@ (kSERVER_PROTOCOL :> <<req.Proto>>)
            @@ (kSERVER_NAME :> <<req.Host>>)
            @@ (kSERVER_ADDR :> <<req.RemoteAddr>>)
            @@ (kSERVER_PORT :> <<Port(req.Host)>>)
            @@ (kREMOTE_HOST :> <<req.RemoteAddr>>)
            @@ (kREMOTE_ADDR :> <<req.RemoteAddr>>)
            @@ (kSCRIPT_NAME :> <<req.Path>>)
            @@ (kPATH_INFO :> <<req.Path>>)
            @@ (kQUERY_STRING :> <<req.RawQuery>>)
        ctype == HeaderGet(req.Header, hContentType)
    IN IF ctype # <<>> THEN MapSet(fixed, kCONTENT_TYPE, <<ctype>>) ELSE fixed

RECURSIVE AddHTTP(_, _, _)
\* for k, v := range req.Header { if _, ok := header[k]; ok == false {
\*     k = "HTTP_" + strings.ToUpper(strings.Replace(k, "-", "_", -1)); header[k] = v } }
\* with the keys of req.Header visited in the order `order`.
AddHTTP(header, reqHeader, order) ==
    IF order = <<>> THEN header
    ELSE LET k == Head(order) IN
         AddHTTP(IF k \notin DOMAIN header
                 THEN MapSet(header, sHTTP_ \o UpperUnderscore(k), reqHeader[k])
                 ELSE header,
                 reqHeader, Tail(order))

\* uint16(len(x)): the conversion keeps the low 16 bits
Len16(x) == Len(x) % 65536

RECURSIVE SizeOfValues(_, _, _)
\* for _, vv := range v { size += uint16(len(k)) + 2; size += uint16(len(vv)) + 2 }
SizeOfValues(size, k, v) ==
    IF v = <<>> THEN size
    ELSE SizeOfValues(Add16(Add16(size, Add16(Len16(k), 2)), Add16(Len16(Head(v)), 2)),
                      k, Tail(v))

RECURSIVE Size16(_, _, _)
\* var size uint16; for k, v := range header {...}, keys visited in `order`
Size16(size, header, order) ==
    IF order = <<>> THEN size
    ELSE Size16(SizeOfValues(size, Head(order), header[Head(order)]), header, Tail(order))

\* hsize := make([]byte, 4); binary.LittleEndian.PutUint16(hsize[1:3], size)
Hsize(size) == <<0, size % 256, size \div 256, 0>>

RECURSIVE RecordsOfValues(_, _)
\* binary.Write(conn, LittleEndian, uint16(len(k))); conn.Write(k);
\* binary.Write(conn, LittleEndian, uint16(len(vv))); conn.Write(vv)  for each vv:
\* the four writes of each record, as a sequence of writes
RecordsOfValues(k, v) ==
    IF v = <<>> THEN <<>>
    ELSE <<U16Bytes(Len16(k)), k, U16Bytes(Len16(Head(v))), Head(v)>>
         \o RecordsOfValues(k, Tail(v))

RECURSIVE Records(_, _)
\* for k, v := range header { for _, vv := range v {...} }, keys visited in `order`
Records(header, order) ==
    IF order = <<>> THEN <<>>
    ELSE RecordsOfValues(Head(order), header[Head(order)]) \o Records(header, Tail(order))

\* ------------------------------------------------------------------------
\* Passenger: the order in which range visits a map
\* ------------------------------------------------------------------------

\* How many rotations of the sorted key list are tried as iteration orders.
MaxRot == 1

RECURSIVE SeqLess(_, _)
\* a before b in the lexicographic order of byte strings
SeqLess(a, b) ==
    IF a = <<>> THEN b # <<>>
    ELSE IF b = <<>> THEN FALSE
    ELSE IF Head(a) # Head(b) THEN Head(a) < Head(b)
    ELSE SeqLess(Tail(a), Tail(b))

RECURSIVE SortedKeys(_)
\* The keys of S, sorted.
SortedKeys(S) ==
    IF S = {} THEN <<>>
    ELSE LET m == CHOOSE x \in S : \A y \in S : x = y \/ SeqLess(x, y)
         IN <<m>> \o SortedKeys(S \ {m})

\* q rotated to the left by r places, and q reversed
Rotate(q, r) == [j \in 1..Len(q) |-> q[((j - 1 + r) % Len(q)) + 1]]
Reverse(q) == [j \in 1..Len(q) |-> q[Len(q) + 1 - j]]

\* Some of the orders in which range may visit the keys of a map with keys S.
SomeOrders(S) ==
    IF S = {} THEN {<<>>}
    ELSE {Rotate(SortedKeys(S), r) : r \in 0..MaxRot} \cup {Reverse(SortedKeys(S))}

\* ------------------------------------------------------------------------
\* Passenger: the requests, the backend's answers, the outgoing response
\* ------------------------------------------------------------------------

\* The length of the long fields of the large request: eight variables of this
\* length take more than 65535 bytes.
BigLen == 8192

hostPlain == <<104>>
hostPort == <<104, 58, 56, 52, 52, 51>>
hostColon == <<104, 58>>
hostMixed == <<104, 58, 56, 48, 97>>
hostTwo == <<97, 58, 49, 58, 50, 50>>
hostV6 == <<91, 58, 58, 49, 93>>
Hosts == {hostPlain, hostPort, hostColon, hostMixed, hostTwo, hostV6, <<>>}

vRemote == <<114, 58, 53>>
vQuery == <<113, 61, 49>>
vText == <<116>>
vOld == <<111>>
vGo == <<103, 111>>
hCookie == <<67, 111, 111, 107, 105, 101>>
hUserAgent == <<85, 115, 101, 114, 45, 65, 103, 101, 110, 116>>
hSetCookie == <<83, 101, 116, 45, 67, 111, 111, 107, 105, 101>>
hXOld == <<88, 45, 79, 108, 100>>

\* req.Header: none, a Content-Type, and a repeated header with another one
NoHeader == <<>>
HdrType == (hContentType :> <<vText>>)
HdrCookie == (hCookie :> <<vA1, vB2>>) @@ (hUserAgent :> <<vGo>>)

\* The fields of *http.Request that ServeHTTP reads.
Req(method, uri, host, query, header, body, cl) ==
    [Method |-> method, RequestURI |-> uri, Proto |-> vHTTP11, Host |-> host,
     RemoteAddr |-> vRemote, Path |-> uri, RawQuery |-> query, Header |-> header,
     Body |-> body, ContentLength |-> cl]

\* A request whose variables take more than 65535 bytes: the URI, the host,
\* the remote address and the query are each BigLen bytes long.
vBig == [j \in 1..BigLen |-> 97]
ReqBig ==
    [Req(vGET, vBig, vBig, vBig, NoHeader, vHi, 2) EXCEPT !.RemoteAddr = vBig]

Requests ==
    {Req(vGET, vSlash, h, <<>>, NoHeader, <<>>, 0) : h \in Hosts}
    \cup {Req(vPOST, vFoo, hostPort, vQuery, hd, vFooBar1, 8) : hd \in {NoHeader, HdrType, HdrCookie}}
    \cup {Req(vGET, vSlash, hostPlain, <<>>, HdrCookie, <<>>, -1), ReqBig}

\* What http.ReadResponse gives: a response, or an error (ok = FALSE).
Response(header, body) == [ok |-> TRUE, Header |-> header, Body |-> body]
NoResponse == [ok |-> FALSE, Header |-> <<>>, Body |-> <<>>]
Responses ==
    {Response(hContentType :> <<vText>>, vHi),
     Response(hSetCookie :> <<vA1, vB2>>, <<>>),
     NoResponse}

\* The headers set on w before ServeHTTP is called.
OutHeaders == {<<>>, hContentType :> <<vOld>>, hXOld :> <<vOld>>}

\* for k, v := range res.Header { w.Header().Del(k); for _, vv := range v { w.Header().Add(k, vv) } }
CopyHeader(wh, rh) ==
    LET keep == {k \in DOMAIN wh : k \notin DOMAIN rh}
        new == {k \in DOMAIN rh : rh[k] # <<>>}
    IN [k \in keep \cup new |-> IF k \in new THEN rh[k] ELSE wh[k]]

\* ------------------------------------------------------------------------
\* Passenger.ServeHTTP
\* ------------------------------------------------------------------------

\* conn, err := net.Dial(p.Net, p.Addr); if err != nil { panic(err.Error()) }
\* defer conn.Close()
PDial ==
    /\ ppc = "dial"
    /\ \/ /\ ppc' = "panic"
          /\ UNCHANGED pconn
       \/ /\ pconn' = "open"
          /\ ppc' = "build"
    /\ UNCHANGED <<preq, pcloses, pheader, psize, pwire, pres, wheader, wbody>>
    /\ UNCHANGED listenerVars

\* port := "80"; ...; header := make(map[string][]string); ...; the loop over req.Header
PBuild ==
    /\ ppc = "build"
    /\ \E order \in SomeOrders(DOMAIN preq.Header) :
         pheader' = AddHTTP(FixedHeader(preq), preq.Header, order)
    /\ ppc' = "size"
    /\ UNCHANGED <<preq, pconn, pcloses, psize, pwire, pres, wheader, wbody>>
    /\ UNCHANGED listenerVars

\* var size uint16; for k, v := range header { for _, vv := range v {...} }
PSize ==
    /\ ppc = "size"
    /\ \E order \in SomeOrders(DOMAIN pheader) : psize' = Size16(0, pheader, order)
    /\ ppc' = "write"
    /\ UNCHANGED <<preq, pconn, pcloses, pheader, pwire, pres, wheader, wbody>>
    /\ UNCHANGED listenerVars

\* conn.Write(hsize); for k, v := range header { ... the records ... }
PWrite ==
    /\ ppc = "write"
    /\ \E order \in SomeOrders(DOMAIN pheader) :
         pwire' = <<Hsize(psize)>> \o Records(pheader, order)
    /\ ppc' = "copy"
    /\ UNCHANGED <<preq, pconn, pcloses, pheader, psize, pres, wheader, wbody>>
    /\ UNCHANGED listenerVars

\* io.Copy(conn, req.Body)
PCopyBody ==
    /\ ppc = "copy"
    /\ pwire' = Append(pwire, preq.Body)
    /\ ppc' = "read"
    /\ UNCHANGED <<preq, pconn, pcloses, pheader, psize, pres, wheader, wbody>>
    /\ UNCHANGED listenerVars

\* The deferred conn.Close(), run when ServeHTTP returns or panics.
PDeferredClose ==
    /\ pconn' = "closed"
    /\ pcloses' = pcloses + 1

\* PReadResponse whose panic does not run the deferred conn.Close().
PReadResponseNoDefer ==
    /\ ppc = "read"
    /\ \E r \in Responses :
         IF r.ok
         THEN /\ pres' = r
              /\ ppc' = "respond"
              /\ UNCHANGED <<pconn, pcloses>>
         ELSE /\ ppc' = "panic"
              /\ UNCHANGED <<pconn, pcloses, pres>>
    /\ UNCHANGED <<preq, pheader, psize, pwire, wheader, wbody>>
    /\ UNCHANGED listenerVars

\* res, err := http.ReadResponse(bufio.NewReader(conn), req)
\* if err != nil { panic(err.Error()) }
PReadResponse ==
    /\ ppc = "read"
    /\ \E r \in Responses :
         IF r.ok
         THEN /\ pres' = r
              /\ ppc' = "respond"
              /\ UNCHANGED <<pconn, pcloses>>
         ELSE /\ ppc' = "panic"
              /\ PDeferredClose
              /\ UNCHANGED pres
    /\ UNCHANGED <<preq, pheader, psize, pwire, wheader, wbody>>
    /\ UNCHANGED listenerVars

\* The copy of res.Header into w.Header(), io.Copy(w, res.Body), and the return.
PCopyResponse ==
    /\ ppc = "respond"
    /\ wheader' = CopyHeader(wheader, pres.Header)
    /\ wbody' = wbody \o pres.Body
    /\ PDeferredClose
    /\ ppc' = "done"
    /\ UNCHANGED <<preq, pheader, psize, pwire, pres>>
    /\ UNCHANGED listenerVars

\* One call of ServeHTTP, for every request of Requests.
InitPass ==
    /\ preq \in Requests
    /\ ppc = "dial"
    /\ pconn = "none"
    /\ pcloses = 0
    /\ pheader = <<>>
    /\ psize = 0
    /\ pwire = <<>>
    /\ pres = NoResponse
    /\ wheader \in OutHeaders
    /\ wbody = <<>>
    /\ stream = [c \in Conns |-> NoStream]
    /\ cuts = [c \in Conns |-> {}]
    /\ InitRest

NextPass ==
    \/ PDial
    \/ PBuild
    \/ PSize
    \/ PWrite
    \/ PCopyBody
    \/ PReadResponse
    \/ PCopyResponse

SpecPass == InitPass /\ [][NextPass]_vars

\* ------------------------------------------------------------------------
\* Properties
\* ------------------------------------------------------------------------

\* C1: a Read that waits for the decode task does not stay blocked once the
\* task has ended, whether it succeeded or failed: whenever the task has ended
\* and a Read is waiting on readych, a notification is there for it to take.
C1_ReadReturnsOnceDecodeEnded ==
    \A c \in Conns :
        (rdPc[c] = "wait" /\ decPc[c] \in {"done", "failed"}) => readych[c] > 0

\* C2: the decode task sends its completion notification exactly once, on
\* success and on every failure path, and the send finds the channel empty (it
\* never blocks).
C2_SignalExactlyOnce ==
    \A c \in Conns :
        /\ sends[c] <= 1
        /\ decPc[c] \in {"done", "failed"} => sends[c] = 1
        /\ decPc[c] = "scan" => readych[c] = 0

\* C3: after a successful decode the bytes returned by Read, concatenated, are
\* a prefix of the preamble followed by the bytes left on the transport: no
\* preamble byte is dropped or repeated and none comes after a raw byte.
C3_PreambleThenRaw ==
    \A c \in Conns :
        decPc[c] = "done" =>
            IsPrefix(delivered[c],
                     preamble[c] \o SubSeq(stream[c], restFrom[c] + 1, Len(stream[c])))

RECURSIVE Overruns(_, _)
\* In exact arithmetic: scanning block b from offset i, a length field or the
\* bytes it declares extend past the end of b.
Overruns(b, i) ==
    IF i = Len(b) THEN FALSE
    ELSE IF i + 2 > Len(b) THEN TRUE
    ELSE LET j == i + 2 + Uint16(b[i + 1], b[i + 2]) IN
         IF j + 2 > Len(b) THEN TRUE
         ELSE LET m == j + 2 + Uint16(b[j + 1], b[j + 2]) IN
              IF m > Len(b) THEN TRUE ELSE Overruns(b, m)

\* C4: the scan never indexes or slices outside the block (no run-time panic),
\* and a block in which a length field or the bytes it declares run past the
\* end is refused with the 'vars index out of range' error.
C4_ScanStaysInBlock ==
    \A c \in Conns :
        /\ decPc[c] # "panic"
        /\ (decPc[c] \in {"done", "failed"} /\ Overruns(envbuf[c], 0)) => err[c] = ErrRange

\* C5: after a successful decode the synthesized stream starts with the line
\* "<METHOD> <URI> HTTP/1.0\r\n", whatever protocol the frame declares.
C5_RequestLineIsHTTP10 ==
    \A c \in Conns :
        decPc[c] = "done" =>
            IsPrefix(Scan(envbuf[c]).reqMethod \o sSP \o Scan(envbuf[c]).reqURI
                     \o sSP \o vHTTP10 \o sCRLF, preamble[c])

\* C6: once c.err holds an error, no step changes it, and every Read, Write,
\* SetDeadline, SetReadDeadline and SetWriteDeadline that returns on the
\* connection returns that error, no bytes, and has not called the transport.
C6_StickyError ==
    [][\A c \in Conns :
          err[c] # NoErr =>
              /\ err'[c] = err[c]
              /\ ret'.conn = c =>
                     (ret'.err = err[c] /\ ret'.n = 0 /\ ~ret'.called)]_vars

\* C6 happens: a Write returns the end-of-stream error a raw read cached.
C6_Witness ==
    \E c \in Conns :
        ret.conn = c /\ ret.op = "Write" /\ err[c] = ErrEOF /\ ret.err = ErrEOF

\* C7: once the decode task has taken one of its error paths the connection is
\* closed, the preamble buffer is empty and nothing has been delivered; the
\* error it caches is the one of that path, and a Read that returns on the
\* connection returns that error with zero bytes.
C7_DecodeFailure ==
    \A c \in Conns :
        decPc[c] \in {"closing", "failed"} =>
            /\ fdClosed[c]
            /\ buf[c] = <<>>
            /\ delivered[c] = <<>>
            /\ derr[c] \in {ErrEOF, ErrUnexpectedEOF, ErrRange, ErrNoProto}
            /\ decPc[c] = "failed" => err[c] = derr[c]
            /\ (ret.conn = c /\ ret.op = "Read") => (ret.n = 0 /\ ret.err = derr[c])

\* C7 happens: a Read returns on a connection whose frame was out of range.
C7_Witness ==
    \E c \in Conns :
        decPc[c] = "failed" /\ err[c] = ErrRange /\ ret.conn = c /\ ret.op = "Read"

\* C8: whatever the peers of the accepted connections have sent (nothing, an
\* incomplete frame, a malformed frame), Accept returns the next pending
\* connection: it is enabled whenever a connection is pending.
C8_AcceptNeverWaits ==
    backlog # <<>> => ENABLED Accept

\* The length of the wire-protocol framing at the head of stream s.
FrameLen(s) == IF Len(s) >= 4 THEN 4 + Uint16(s[2], s[3]) ELSE Len(s)

\* C9: however the transport splits the stream, no byte of the 4-byte header
\* or of the block is returned by Read: the first byte Read takes from the
\* transport lies after the block.
C9_NoFramingBytes ==
    \A c \in Conns :
        rawFirst[c] # -1 => rawFirst[c] >= FrameLen(stream[c])

\* The phase of a connection, from its fields.
PhaseOf(rdy, done, e) ==
    IF e # NoErr THEN "Errored"
    ELSE IF done THEN "RawPhase"
    ELSE IF rdy THEN "Ready"
    ELSE "Pending"

\* C10: the phase only moves forward: Pending -> Ready -> RawPhase, or into
\* Errored, which is never left; RawPhase is entered only from Ready.
C10_PhaseMonotonic ==
    [][\A c \in Conns :
          LET p == PhaseOf(ready[c], hdrdone[c], err[c])
              q == PhaseOf(ready'[c], hdrdone'[c], err'[c])
          IN \/ q = p
             \/ q = "Errored"
             \/ p = "Pending" /\ q = "Ready"
             \/ p = "Ready" /\ q = "RawPhase"]_vars

\* C10 happens: a connection has gone through Ready and RawPhase into Errored.
C10_Witness ==
    \E c \in Conns : ready[c] /\ hdrdone[c] /\ err[c] = ErrEOF

RECURSIVE LastValue(_, _, _, _)
\* In exact arithmetic, for a block b whose records tile it: the value of the
\* last record from offset i on whose key is key, or acc when there is none.
LastValue(b, i, key, acc) ==
    IF i >= Len(b) THEN acc
    ELSE LET kl == Uint16(b[i + 1], b[i + 2])
             j == i + 2 + kl
             vl == Uint16(b[j + 1], b[j + 2])
             m == j + 2 + vl
         IN LastValue(b, m, key,
                      IF SubSeq(b, i + 3, j) = key THEN SubSeq(b, j + 3, m) ELSE acc)

\* The decode goroutine has received the whole block and is past the scan.
Scanned(c) ==
    decPc[c] \in {"closing", "failed", "done", "panic"} /\ Len(envbuf[c]) = Envsize(c)

\* C11: a block made of whole records in which SERVER_PROTOCOL is absent or
\* empty (the empty block included) is refused with the 'no protocol specified'
\* error, and nothing is written to the preamble buffer.
C11_NoProtocolRefused ==
    \A c \in Conns :
        (/\ Scanned(c)
         /\ ~Overruns(envbuf[c], 0)
         /\ LastValue(envbuf[c], 0, kSERVER_PROTOCOL, <<>>) = <<>>) =>
            /\ decPc[c] \in {"closing", "failed"}
            /\ derr[c] = ErrNoProto
            /\ decPc[c] = "failed" => err[c] = ErrNoProto
            /\ preamble[c] = <<>>
            /\ buf[c] = <<>>

\* C11 happens: a frame whose SERVER_PROTOCOL is empty was refused.
C11_Witness ==
    \E c \in Conns :
        /\ decPc[c] = "failed"
        /\ envbuf[c] = Rec(kSERVER_PROTOCOL, <<>>)
        /\ err[c] = ErrNoProto

\* C13: when the variables of a successfully decoded frame are exactly
\* REQUEST_METHOD, REQUEST_URI, SERVER_PROTOCOL and CONTENT_LENGTH = n > 0, the
\* preamble is exactly "<METHOD> <URI> HTTP/1.0\r\n", "Content-Length: n\r\n"
\* and the blank line, with no other header line; the body follows it.
C13_PostPreamble ==
    \A c \in Conns :
        LET s == Scan(envbuf[c]) IN
        (/\ decPc[c] = "done"
         /\ DOMAIN s.env =
                {kREQUEST_METHOD, kREQUEST_URI, kSERVER_PROTOCOL, kCONTENT_LENGTH}
         /\ \A k \in DOMAIN s.env : Len(s.env[k]) = 1
         /\ ContentLengthDigits(s.env[kCONTENT_LENGTH][1]) # <<>>) =>
            preamble[c] =
                s.reqMethod \o sSP \o s.reqURI \o sSP \o vHTTP10 \o sCRLF
                \o sContentLength \o ContentLengthDigits(s.env[kCONTENT_LENGTH][1]) \o sCRLF
                \o sCRLF

RECURSIVE ValuesOf(_, _, _)
\* In exact arithmetic, for a block b whose records tile it: the values of the
\* records from offset i on whose key is key, in the order of the block.
ValuesOf(b, i, key) ==
    IF i >= Len(b) THEN <<>>
    ELSE LET kl == Uint16(b[i + 1], b[i + 2])
             j == i + 2 + kl
             vl == Uint16(b[j + 1], b[j + 2])
             m == j + 2 + vl
         IN (IF SubSeq(b, i + 3, j) = key THEN <<SubSeq(b, j + 3, m)>> ELSE <<>>)
            \o ValuesOf(b, m, key)

\* The offsets in p at which a CR LF starts.
LineEnds(p) == {e \in 1..(Len(p) - 1) : p[e] = 13 /\ p[e + 1] = 10}

\* The line of p that starts at offset st: the bytes up to the next CR LF.
LineAt(p, st) ==
    LET e == CHOOSE x \in LineEnds(p) : x >= st /\ \A y \in LineEnds(p) : y >= st => x <= y
    IN SubSeq(p, st, e - 1)

\* The offsets at which a header line of the name hname starts in p.
NamedStarts(p, hname) ==
    {st \in {1} \cup {e + 2 : e \in LineEnds(p)} :
        /\ \E e \in LineEnds(p) : e >= st
        /\ IsPrefix(hname \o sColonSP, LineAt(p, st))}

\* The header lines of the name hname in p, in the order in which they appear.
LinesNamed(p, hname) ==
    LET S == NamedStarts(p, hname)
    IN [j \in 1..Cardinality(S) |->
           LineAt(p, CHOOSE st \in S : Cardinality({t \in S : t < st}) = j - 1)]

\* C14: after a successful decode of a block of whole records, for every key
\* other than CONTENT_LENGTH the header lines of its name in the preamble are
\* one per occurrence of the key in the block, in the order of the occurrences.
C14_RepeatedKeyOrder ==
    \A c \in Conns :
        (decPc[c] = "done" /\ ~Overruns(envbuf[c], 0)) =>
            \A k \in DOMAIN Scan(envbuf[c]).env \ {kCONTENT_LENGTH} :
                LET vals == ValuesOf(envbuf[c], 0, k)
                    hname == HeaderName(k)
                IN LinesNamed(preamble[c], hname) =
                       [j \in 1..Len(vals) |-> hname \o sColonSP \o vals[j]]

\* C14 happens: the frame with two HTTP_COOKIE records was decoded.
C14_Witness ==
    \E c \in Conns :
        /\ decPc[c] = "done"
        /\ ~Overruns(envbuf[c], 0)
        /\ ValuesOf(envbuf[c], 0, kHTTP_COOKIE) = <<vA1, vB2>>
        /\ Len(LinesNamed(preamble[c], HeaderName(kHTTP_COOKIE))) = 2

\* C15: what a connection can do next depends on that connection alone: unless
\* its own decode has crashed, its decode goroutine and its Read take their next
\* step whenever the connection's own state allows it, whatever has happened on
\* the other connections (a decode failure, a malformed frame, a stalled peer,
\* a blocked Read).
C15_ConnectionsIndependent ==
    \A c \in Conns :
        decPc[c] # "panic" =>
            /\ (decPc[c] = "head" /\ FdReadable(c, 4)) => ENABLED DecHead(c)
            /\ decPc[c] = "scan" => ENABLED DecScan(c)
            /\ decPc[c] = "closing" => ENABLED DecStore(c)
            /\ (accepted[c] /\ rdPc[c] = "idle") => ENABLED ReadCall(c)
            /\ (rdPc[c] = "wait" /\ readych[c] > 0) => ENABLED ReadWake(c)
            /\ rdPc[c] = "body" => ENABLED ReadBody(c)

\* C19: decoding succeeds only if the records exactly tile the block: after a
\* successful decode the cursor of the scan equals the block size and no
\* length field or value ran past the end of the block.
C19_RecordsTileBlock ==
    \A c \in Conns :
        decPc[c] = "done" =>
            /\ Scan(envbuf[c]).i = Len(envbuf[c])
            /\ ~Overruns(envbuf[c], 0)

RECURSIVE DigitsToNat(_)
\* The number written by the decimal digits d.
DigitsToNat(d) ==
    IF d = <<>> THEN 0 ELSE 10 * DigitsToNat(SubSeq(d, 1, Len(d) - 1)) + (d[Len(d)] - 48)

\* C20: when CONTENT_LENGTH parses to n > 0, the decode goroutine has read n
\* body bytes from the transport and appended them to the preamble buffer
\* before it signals: what it wrote to the buffer ends with the n bytes of the
\* stream that precede the first byte it left on the transport.
C20_BodyPreCopied ==
    \A c \in Conns :
        LET s == Scan(envbuf[c]) IN
        (/\ decPc[c] = "done"
         /\ kCONTENT_LENGTH \in DOMAIN s.env
         /\ ContentLengthDigits(s.env[kCONTENT_LENGTH][1]) # <<>>
         /\ Len(ContentLengthDigits(s.env[kCONTENT_LENGTH][1])) <= 4) =>
            LET n == DigitsToNat(ContentLengthDigits(s.env[kCONTENT_LENGTH][1])) IN
            /\ restFrom[c] >= n
            /\ Len(preamble[c]) >= n
            /\ SubSeq(preamble[c], Len(preamble[c]) - n + 1, Len(preamble[c])) =
                   SubSeq(stream[c], restFrom[c] - n + 1, restFrom[c])

RECURSIVE ExactSizeOf(_, _)
\* In exact arithmetic: the bytes of the records of the keys in q, 2 + len(key)
\* + 2 + len(value) for each value of each key.
ExactSizeOf(header, q) ==
    IF q = <<>> THEN 0
    ELSE LET k == Head(q)
             RECURSIVE Sum(_)
             Sum(v) == IF v = <<>> THEN 0 ELSE 4 + Len(k) + Len(Head(v)) + Sum(Tail(v))
         IN Sum(header[k]) + ExactSizeOf(header, Tail(q))

ExactSize(header) == ExactSizeOf(header, SortedKeys(DOMAIN header))

\* ServeHTTP has written the frame and the body to the backend connection.
FrameSent == ppc \in {"read", "respond", "done"}

\* C12: the frame and body ServeHTTP writes, given to the listener's decoder,
\* decode to the same variables (each key with the same values in the same
\* order) and leave exactly the body after the block, in whatever order the
\* records were written.
C12_RoundTrip ==
    FrameSent =>
        LET w == Flat(pwire)
            s == Scan(WireBlock(w))
        IN /\ Len(w) >= 4 + Uint16(w[2], w[3])
           /\ s.st = "ok"
           /\ s.reqProtocol # <<>>
           /\ s.env = pheader
           /\ WireRest(w) = preq.Body

\* C16: ServeHTTP never ends in a panic: a failed dial or an unparsable
\* backend response ends the call with a failure reported to the caller.
C16_NoPanic == ppc # "panic"

\* host ends with ':' followed by exactly n digits, n >= 1.
HasPortSuffix(host, n) ==
    /\ n >= 1
    /\ n < Len(host)
    /\ host[Len(host) - n] = 58
    /\ \A j \in (Len(host) - n + 1)..Len(host) : IsDigit(host[j])

\* C17: SERVER_PORT has one value: the digits of the ':<digits>' suffix of the
\* request's host when the host ends with one, and "80" in every other case.
C17_ServerPort ==
    kSERVER_PORT \in DOMAIN pheader =>
        /\ Len(pheader[kSERVER_PORT]) = 1
        /\ \A n \in 1..Len(preq.Host) :
               HasPortSuffix(preq.Host, n) =>
                   pheader[kSERVER_PORT][1] =
                       SubSeq(preq.Host, Len(preq.Host) - n + 1, Len(preq.Host))
        /\ (\A n \in 1..Len(preq.Host) : ~HasPortSuffix(preq.Host, n)) =>
               pheader[kSERVER_PORT][1] = s80

\* C17 happens: the port of the host h:8443 was taken, and the default for h:80a.
C17_Witness ==
    /\ kSERVER_PORT \in DOMAIN pheader
    /\ \/ preq.Host = hostPort /\ pheader[kSERVER_PORT] = <<SubSeq(hostPort, 3, 6)>>
       \/ preq.Host = hostMixed /\ pheader[kSERVER_PORT] = <<s80>>

\* C18: the block size in the header ServeHTTP writes is the exact number of
\* record bytes it writes after it, the sum of 2 + len(key) + 2 + len(value)
\* over all pairs; header bytes 0 and 3 are 0 and the size is little-endian.
C18_BlockSizeExact ==
    ppc \in {"copy", "read", "respond", "done"} =>
        LET w == Flat(pwire) IN
        /\ w[1] = 0
        /\ w[4] = 0
        /\ Uint16(w[2], w[3]) = ExactSize(pheader)
        /\ Len(w) - 4 - (IF ppc = "copy" THEN 0 ELSE Len(preq.Body)) = ExactSize(pheader)

RECURSIVE ValueCount(_, _)
\* The number of values the keys of the set K have in env.
ValueCount(env, K) ==
    IF K = {} THEN 0
    ELSE LET k == CHOOSE x \in K : TRUE
         IN Len(env[k]) + ValueCount(env, K \ {k})

\* The number of lines the preamble is to have for env: the request line, one
\* line per value of every key but CONTENT_LENGTH, the Content-Length line
\* when the length is positive, and the blank line.
ExpectedLines(env) ==
    1 + ValueCount(env, DOMAIN env \ {kCONTENT_LENGTH})
      + (IF kCONTENT_LENGTH \in DOMAIN env
            /\ ContentLengthDigits(env[kCONTENT_LENGTH][1]) # <<>> THEN 1 ELSE 0)
      + 1

\* C21: after a successful decode, for every key of the decoded env other than
\* CONTENT_LENGTH (REQUEST_METHOD, REQUEST_URI and SERVER_PROTOCOL included)
\* the preamble has exactly one header line per value of the key, named by the
\* key's entry in headerMappings or by the key itself when it has none; the
\* preamble has no line beyond those (no value is written twice), and it ends
\* with one blank line, the only empty line in it.
C21_OneLinePerValue ==
    \A c \in Conns :
        decPc[c] = "done" =>
            LET env == Scan(envbuf[c]).env
                p == preamble[c]
            IN /\ \A k \in DOMAIN env \ {kCONTENT_LENGTH} :
                      LET hname == IF k \in DOMAIN headerMappings
                                   THEN headerMappings[k] ELSE k
                      IN LinesNamed(p, hname) =
                             [j \in 1..Len(env[k]) |-> hname \o sColonSP \o env[k][j]]
               /\ Cardinality(LineEnds(p)) = ExpectedLines(env)
               /\ Len(p) >= 4
               /\ SubSeq(p, Len(p) - 3, Len(p)) = sCRLF \o sCRLF
               /\ \A e \in LineEnds(p) : (e + 2) \in LineEnds(p) => e = Len(p) - 3

\* C21 happens: the frame with Cookie twice and the unmapped key X was decoded,
\* and its preamble has the two Cookie lines, the X line and the
\* SERVER_PROTOCOL line.
C21_Witness ==
    \E c \in Conns :
        /\ decPc[c] = "done"
        /\ stream[c] = FrameHeaders
        /\ Len(LinesNamed(preamble[c], headerMappings[kHTTP_COOKIE])) = 2
        /\ LinesNamed(preamble[c], vX) = <<vX \o sColonSP \o vHi>>
        /\ Len(LinesNamed(preamble[c], kSERVER_PROTOCOL)) = 1

\* C22: a request header that one of the fixed variables already represents
\* gets no HTTP_<NAME> variable: when the request carries Content-Type, the
\* variables ServeHTTP has built hold CONTENT_TYPE and no HTTP_CONTENT_TYPE.
C22_NoSecondVariable ==
    (pheader # <<>> /\ HeaderGet(preq.Header, hContentType) # <<>>) =>
        /\ kCONTENT_TYPE \in DOMAIN pheader
        /\ (sHTTP_ \o kCONTENT_TYPE) \notin DOMAIN pheader

\* C23: once ServeHTTP has copied the backend response, the headers of the
\* outgoing response are those of the backend response: the same names, for
\* every name the backend's values in order, and no header set on the outgoing
\* response before the call is left.
C23_HeadersReplaced ==
    ppc = "done" =>
        /\ DOMAIN wheader = {k \in DOMAIN pres.Header : pres.Header[k] # <<>>}
        /\ \A k \in DOMAIN wheader : wheader[k] = pres.Header[k]

\* The decode goroutine of c has not returned: it may still read fd, close it
\* or write to buf.
DecodeRunning(c) == decPc[c] \in {"head", "block", "scan", "closing"}

\* The Read call of c is at a statement that reads the preamble buffer
\* (c.reader.Read) or the transport (c.Conn.Read).
ReadTouches(c) ==
    \/ rdPc[c] = "raw"
    \/ rdPc[c] = "body" /\ err[c] = NoErr

\* C24: while the decode goroutine of a connection is running, no Read of that
\* connection is at a read of the transport or of the preamble buffer, and no
\* step of Read takes bytes from either of them: the consumer reaches them
\* only after the goroutine's last access.
C24_NoConcurrentAccess ==
    [][\A c \in Conns :
          /\ (ReadTouches(c) => ~DecodeRunning(c))
          /\ ((rdPc[c] \in {"body", "raw"} /\ (buf'[c] # buf[c] \/ taken'[c] # taken[c]))
                 => (~DecodeRunning(c) /\ decPc'[c] = decPc[c]))]_vars

\* C24 happens: a Read that had to wait for the goroutine has taken the
\* preamble from the buffer and is now reading the transport, the goroutine
\* having returned.
C24_Witness ==
    \E c \in Conns :
        /\ rdPc[c] = "raw"
        /\ decPc[c] = "done"
        /\ delivered[c] # <<>>
        /\ delivered[c] = preamble[c]

RECURSIVE ScanRun(_, _, _)
\* The states of the scan of the block b from s on, one per pass through the
\* loop, for at most fuel passes.
ScanRun(b, s, fuel) ==
    IF s.st # "loop" \/ fuel = 0 THEN <<s>>
    ELSE <<s>> \o ScanRun(b, ScanIter(b, s), fuel - 1)

C26_LastOccurrenceWins ==
    \A c \in Conns :
        (Scanned(c) /\ ~Overruns(envbuf[c], 0)) =>
            LET b == envbuf[c]
                lastMethod == LastValue(b, 0, kREQUEST_METHOD, <<>>)
                lastURI == LastValue(b, 0, kREQUEST_URI, <<>>)
                lastProto == LastValue(b, 0, kSERVER_PROTOCOL, <<>>)
            IN /\ decPc[c] = "done" =>
                      IsPrefix(lastMethod \o sSP \o lastURI \o sSP, preamble[c])
               /\ (lastProto = <<>> /\ ValuesOf(b, 0, kSERVER_PROTOCOL) # <<>>) =>
                      /\ decPc[c] \in {"closing", "failed"}
                      /\ derr[c] = ErrNoProto
                      /\ preamble[c] = <<>>

\* C26 happens: the frame with GET, /, HTTP/1.0 followed by POST, /foo,
\* HTTP/1.1 was decoded, and its request line starts with POST /foo.
C26_Witness ==
    \E c \in Conns :
        /\ decPc[c] = "done"
        /\ stream[c] = FrameRepeat
        /\ ValuesOf(envbuf[c], 0, kREQUEST_METHOD) = <<vGET, vPOST>>
        /\ ValuesOf(envbuf[c], 0, kREQUEST_URI) = <<vSlash, vFoo>>
        /\ IsPrefix(vPOST \o sSP \o vFoo \o sSP, preamble[c])

\* C27: once net.Dial has succeeded, the backend connection is closed exactly
\* once on every way out of ServeHTTP, the panic after a failed
\* http.ReadResponse included: it is open and not yet closed while ServeHTTP
\* runs, and closed, by one call of Close, when ServeHTTP has returned or
\* panicked.
C27_ClosedExactlyOnce ==
    /\ pcloses <= 1
    /\ ppc \in {"build", "size", "write", "copy", "read", "respond"} =>
           (pconn = "open" /\ pcloses = 0)
    /\ (ppc \in {"done", "panic"} /\ pconn # "none") =>
           (pconn = "closed" /\ pcloses = 1)
    /\ ppc = "done" => pconn # "none"

\* C27 happens: the dial succeeded, the frame was sent, reading the response
\* failed, and ServeHTTP was left by the panic with the connection closed.
C27_Witness ==
    /\ ppc = "panic"
    /\ pwire # <<>>
    /\ pconn = "closed"
    /\ pcloses = 1

====
